---- MODULE Spec2Model ----
(***************************************************************************)
(* Model of src/tree.rs: SkillTree::load, the recursive include walk       *)
(* (load_included_path / import), the merge of an included document into   *)
(* the including one, and SkillTree::validate.                             *)
(*                                                                         *)
(* A path is a sequence of components (<<"sub", "b">> is `sub/b`).         *)
(* Option<T> is a sequence of length at most one: <<>> is None and <<v>>   *)
(* is Some(v).  A HashMap is a function on the set of its keys.            *)
(***************************************************************************)
EXTENDS Integers, Sequences, FiniteSets, TLC

VARIABLES
    pc,        \* position of the caller: "start", "loading", "unwinding", "loaded", "failed",
               \* "validated", "accessed", "panicked"
    disk,      \* the documents read so far: resolved file -> parsed SkillTree
    loaded,    \* the HashSet<PathBuf> threaded through the recursion
    stack,     \* the active load_included_path calls, outermost first
    result,    \* Ok(tree) of SkillTree::load, once it returned
    err,       \* the anyhow error on its way out: Option<[cause, frames]>
    vres,      \* the result of validate: Option<[group, dep]>, None is Ok(())
    rootPath,  \* the argument of SkillTree::load
    readLog,   \* history: the resolved files parsed successfully, in order
    failChain, \* history: the paths of the active calls when the failure happened
    world,     \* which of the modelled file systems the program runs on
    entries,   \* how many include entries the documents on disk hold at most
    out        \* the accessor call made on the loaded document: Option<[op, item, column, input, ret]>

vars == <<pc, disk, loaded, stack, result, err, vres, rootPath, readLog, failChain,
          world, entries, out>>

-----------------------------------------------------------------------------
(* Bounds *)

\* total number of include entries over all documents on disk
MaxIncludes == 4

\* the same, in the runs that check that the load returns
MaxCycle == 2

-----------------------------------------------------------------------------
(* Option, HashMap and sequence helpers *)

None == <<>>
Some(x) == <<x>>
IsSome(o) == o # <<>>
Unwrap(o) == o[1]

\* Option<Vec<T>>::get_or_insert(vec![]) / iter().flatten(): the vector, empty for None
OrEmpty(o) == IF IsSome(o) THEN Unwrap(o) ELSE <<>>

EmptyMap == [k \in {} |-> ""]

\* Option<HashMap>::get_or_insert(HashMap::default())
OrEmptyMap(o) == IF IsSome(o) THEN Unwrap(o) ELSE EmptyMap

\* HashMap::get
Get(m, k) == IF k \in DOMAIN m THEN Some(m[k]) ELSE None

\* HashMap::insert: the new value replaces an old one
Insert(m, k, v) == [x \in DOMAIN m \cup {k} |-> IF x = k THEN v ELSE m[x]]

Range(s) == {s[i] : i \in 1..Len(s)}

\* Vec::contains
Contains(s, x) == \E i \in 1..Len(s) : s[i] = x

-----------------------------------------------------------------------------
(* Paths and the file system *)

\* Path::parent().unwrap(): the path without its last component
Parent(p) == SubSeq(p, 1, Len(p) - 1)

\* Path::join with a relative path
Join(dir, p) == dir \o p

\* the directories that exist: the working directory and sub/
Dirs == {<<>>, <<"sub">>}

\* the documents that may exist on disk
Files == {<<"a">>, <<"b">>, <<"sub", "b">>, <<"sub", "d">>}

NoFile == <<"?">>

\* what the operating system does with the directory part of a path: it walks
\* it one component at a time, and fails when a directory does not exist
RECURSIVE Walk(_, _)
Walk(cwd, p) ==
    IF p = <<>> THEN cwd
    ELSE IF Head(p) = ".."
         THEN IF cwd = <<>> THEN NoFile ELSE Walk(Parent(cwd), Tail(p))
         ELSE IF Append(cwd, Head(p)) \in Dirs
              THEN Walk(Append(cwd, Head(p)), Tail(p))
              ELSE NoFile

\* the file a path names, NoFile when there is none
Resolve(p) ==
    IF p = <<>> THEN NoFile
    ELSE LET dir == Walk(<<>>, Parent(p))
             f   == Append(dir, p[Len(p)])
         IN  IF dir # NoFile /\ f \in Files THEN f ELSE NoFile

\* the include entries a document may hold
IncludeTexts ==
    {<<"a">>, <<"b">>, <<"d">>, <<"sub", "b">>, <<"sub", "d">>, <<"..", "a">>}

\* the arguments of SkillTree::load: a bare file name and a path with a directory part
RootPaths == {<<"a">>, <<"sub", "b">>}

-----------------------------------------------------------------------------
(* The documents (struct SkillTree, Doc, Group, Cluster, Item) *)

Group(name, label, requires, items) ==
    [name |-> name, label |-> label, requires |-> requires, items |-> items]

Cluster(name, label) == [name |-> name, label |-> label]

Doc(columns, defaults, emoji, include) ==
    [columns |-> columns, defaults |-> defaults, emoji |-> emoji, include |-> include]

\* Doc::default()
DefaultDoc == Doc(None, None, None, None)

SkillTree(group, cluster, doc) == [group |-> group, cluster |-> cluster, doc |-> doc]

Item1(k, v) == [x \in {k} |-> v]
Item2(k1, v1, k2, v2) == [x \in {k1, k2} |-> IF x = k1 THEN v1 ELSE v2]

\* world 1: every document declares columns, defaults and translations, and
\* every dependency names a group of some document
World1(f, inc) ==
    CASE f = <<"a">> ->
           SkillTree(
             Some(<<Group("ga", Some("A"), Some(<<"gb", "gd">>),
                          <<Item2("label", "a1", "y", "1")>>)>>),
             Some(<<Cluster("ca", "CA")>>),
             Some(Doc(Some(<<"x", "y">>),
                      Some(Item2("x", "ax", "y", "ay")),
                      Some(Item1("y", Item1("1", "a-one"))),
                      Some(inc))))
      [] f = <<"b">> ->
           SkillTree(
             Some(<<Group("gb", Some("B"), None, <<Item1("label", "b1")>>),
                    Group("gb2", None, Some(<<"gs">>), <<Item1("href", "h2")>>)>>),
             Some(<<Cluster("cb", "CB")>>),
             Some(Doc(Some(<<"y", "z">>),
                      Some(Item2("y", "by", "z", "?")),
                      Some(Item1("z", Item1("1", "b-one"))),
                      Some(inc))))
      [] f = <<"sub", "b">> ->
           SkillTree(
             Some(<<Group("gs", Some("S"), Some(<<"gd", "ga">>),
                          <<Item2("label", "s1", "z", "1")>>)>>),
             None,
             Some(Doc(Some(<<"z", "x">>),
                      Some(Item2("z", "!", "x", "sx")),
                      Some(Item1("z", Item1("1", "s-one"))),
                      Some(inc))))
      [] OTHER ->
           SkillTree(
             Some(<<Group("gd", Some("D"), Some(<<>>), <<Item1("label", "d1")>>)>>),
             Some(<<Cluster("cd", "CD")>>),
             Some(Doc(Some(<<"w", "z">>),
                      Some(Item1("w", "dw")),
                      None,
                      Some(inc))))

\* world 2: missing tables, a repeated column, a repeated group name,
\* dependencies that no document declares, an item without label
World2(f, inc) ==
    CASE f = <<"a">> ->
           SkillTree(
             Some(<<Group("ga", Some("A"), Some(<<"nope", "gq">>),
                          <<Item1("href", "h")>>)>>),
             None,
             Some(Doc(None,
                      Some(Item1("z", "az")),
                      Some(Item1("z", Item1("1", "a-one"))),
                      IF inc = <<>> THEN None ELSE Some(inc))))
      [] f = <<"b">> ->
           SkillTree(
             Some(<<Group("gd", Some("B"), None, <<Item1("label", "b1")>>)>>),
             Some(<<Cluster("cb", "CB")>>),
             Some(Doc(Some(<<"z", "z">>),
                      None,
                      Some(Item1("z", Item1("1", "b-one"))),
                      Some(inc))))
      [] f = <<"sub", "b">> ->
           SkillTree(
             None,
             Some(<<Cluster("cs", "CS")>>),
             IF inc = <<>> THEN None
             ELSE Some(Doc(None, None, None, Some(inc))))
      [] OTHER ->
           SkillTree(
             Some(<<Group("gd", Some("D"), Some(<<"gd">>), <<>>),
                    Group("gx", None, Some(<<"ga", "zz", "gs">>),
                          <<Item1("label", "x1")>>)>>),
             None,
             Some(Doc(Some(<<"z", "y">>),
                      Some(Item2("z", "?", "y", "dy")),
                      None,
                      Some(inc))))

Worlds == {"full", "sparse"}

\* SkillTree::parse of the text of file f in world w, its include list being inc
Parse(w, f, inc) == IF w = "full" THEN World1(f, inc) ELSE World2(f, inc)

\* the include lists of at most n entries
IncludeLists(n) == UNION {[1..k -> IncludeTexts] : k \in 0..n}

-----------------------------------------------------------------------------
(* Accessors *)

\* SkillTree::groups
Groups(tree) == OrEmpty(tree.group)

\* SkillTree::columns
Columns(tree) ==
    IF IsSome(tree.doc) /\ IsSome(Unwrap(tree.doc).columns)
    THEN Unwrap(Unwrap(tree.doc).columns)
    ELSE <<>>

\* Iterator::find over a slice: the first element from index i on whose name is `name`
RECURSIVE FindFrom(_, _, _)
FindFrom(gs, name, i) ==
    IF i > Len(gs) THEN None
    ELSE IF gs[i].name = name THEN Some(gs[i])
    ELSE FindFrom(gs, name, i + 1)

\* the last element whose name is `name` (Iterator::rfind)
RECURSIVE FindBack(_, _, _)
FindBack(gs, name, i) ==
    IF i < 1 THEN None
    ELSE IF gs[i].name = name THEN Some(gs[i])
    ELSE FindBack(gs, name, i - 1)

\* group_named that returns the last match
GroupNamed_Last(tree, name) == FindBack(Groups(tree), name, Len(Groups(tree)))

\* SkillTree::group_named
GroupNamed(tree, name) == FindFrom(Groups(tree), name, 1)

\* emoji that returns the empty string for a value the table of the column lacks
Emoji_EmptyOnMiss(tree, column, input) ==
    IF /\ IsSome(tree.doc)
       /\ IsSome(Unwrap(tree.doc).emoji)
       /\ IsSome(Get(Unwrap(Unwrap(tree.doc).emoji), column))
    THEN IF IsSome(Get(Unwrap(Get(Unwrap(Unwrap(tree.doc).emoji), column)), input))
         THEN Unwrap(Get(Unwrap(Get(Unwrap(Unwrap(tree.doc).emoji), column)), input))
         ELSE ""
    ELSE input

\* SkillTree::emoji
Emoji(tree, column, input) ==
    IF /\ IsSome(tree.doc)
       /\ IsSome(Unwrap(tree.doc).emoji)
       /\ IsSome(Get(Unwrap(Unwrap(tree.doc).emoji), column))
       /\ IsSome(Get(Unwrap(Get(Unwrap(Unwrap(tree.doc).emoji), column)), input))
    THEN Unwrap(Get(Unwrap(Get(Unwrap(Unwrap(tree.doc).emoji), column)), input))
    ELSE input

\* ItemExt::href
Href(item) == Get(item, "href")

\* ItemExt::label: `unwrap` panics when the item has no label
Label(item) ==
    IF IsSome(Get(item, "label"))
    THEN [panic |-> FALSE, value |-> Unwrap(Get(item, "label"))]
    ELSE [panic |-> TRUE, value |-> ""]

\* column_value that takes an empty value of the item for a missing one
ColumnValue_EmptyIsMissing(item, tree, c) ==
    IF IsSome(Get(item, c)) /\ Unwrap(Get(item, c)) # "" THEN Unwrap(Get(item, c))
    ELSE IF /\ IsSome(tree.doc)
            /\ IsSome(Unwrap(tree.doc).defaults)
            /\ IsSome(Get(Unwrap(Unwrap(tree.doc).defaults), c))
         THEN Unwrap(Get(Unwrap(Unwrap(tree.doc).defaults), c))
         ELSE ""

\* ItemExt::column_value
ColumnValue(item, tree, c) ==
    IF IsSome(Get(item, c)) THEN Unwrap(Get(item, c))
    ELSE IF /\ IsSome(tree.doc)
            /\ IsSome(Unwrap(tree.doc).defaults)
            /\ IsSome(Get(Unwrap(Unwrap(tree.doc).defaults), c))
         THEN Unwrap(Get(Unwrap(Unwrap(tree.doc).defaults), c))
         ELSE ""

-----------------------------------------------------------------------------
(* SkillTree::import: the merge of a loaded include into the including document *)

\* MergeColumn without the `contains` test: the column is pushed every time
MergeColumn_AlwaysPush(self_doc, toml_doc, column) ==
    [self_doc EXCEPT !.columns = Some(Append(OrEmpty(self_doc.columns), column))]

\* MergeColumn with the default and the table carried over outside the
\* `contains` test
MergeColumn_Overwrite(self_doc, toml_doc, column) ==
    LET columns == OrEmpty(self_doc.columns)
        d1 == [self_doc EXCEPT !.columns =
                  Some(IF Contains(columns, column) THEN columns
                       ELSE Append(columns, column))]
        e  == Get(OrEmptyMap(toml_doc.emoji), column)
        d2 == IF IsSome(e)
              THEN [d1 EXCEPT !.emoji =
                       Some(Insert(OrEmptyMap(d1.emoji), column, Unwrap(e)))]
              ELSE d1
        v  == Get(OrEmptyMap(toml_doc.defaults), column)
    IN  IF IsSome(v)
        THEN [d2 EXCEPT !.defaults =
                 Some(Insert(OrEmptyMap(d2.defaults), column, Unwrap(v)))]
        ELSE d2

\* MergeColumn that pushes a new column and leaves its default and table behind
MergeColumn_NoCarry(self_doc, toml_doc, column) ==
    LET columns == OrEmpty(self_doc.columns)
    IN  [self_doc EXCEPT !.columns =
            Some(IF Contains(columns, column) THEN columns ELSE Append(columns, column))]

\* MergeColumn that compares the column with the last one pushed only
MergeColumn_DedupAdjacent(self_doc, toml_doc, column) ==
    LET columns == OrEmpty(self_doc.columns)
        same == columns # <<>> /\ columns[Len(columns)] = column
        d1 == [self_doc EXCEPT !.columns =
                  Some(IF same THEN columns ELSE Append(columns, column))]
        e  == Get(OrEmptyMap(toml_doc.emoji), column)
        d2 == IF ~same /\ IsSome(e)
              THEN [d1 EXCEPT !.emoji =
                       Some(Insert(OrEmptyMap(d1.emoji), column, Unwrap(e)))]
              ELSE d1
        v  == Get(OrEmptyMap(toml_doc.defaults), column)
    IN  IF ~same /\ IsSome(v)
        THEN [d2 EXCEPT !.defaults =
                 Some(Insert(OrEmptyMap(d2.defaults), column, Unwrap(v)))]
        ELSE d2

\* MergeColumn that, for a new column, takes over every default of the include
\* (HashMap::extend) instead of the one of the column
MergeColumn_ExtendAll(self_doc, toml_doc, column) ==
    LET columns == OrEmpty(self_doc.columns)
    IN  IF Contains(columns, column)
        THEN [self_doc EXCEPT !.columns = Some(columns)]
        ELSE LET d1 == [self_doc EXCEPT !.columns = Some(Append(columns, column))]
                 e  == Get(OrEmptyMap(toml_doc.emoji), column)
                 d2 == IF IsSome(e)
                       THEN [d1 EXCEPT !.emoji =
                                Some(Insert(OrEmptyMap(d1.emoji), column, Unwrap(e)))]
                       ELSE d1
                 td == OrEmptyMap(toml_doc.defaults)
                 sd == OrEmptyMap(d2.defaults)
             IN  IF column \in DOMAIN td
                 THEN [d2 EXCEPT !.defaults =
                          Some([k \in DOMAIN sd \cup DOMAIN td |->
                                   IF k \in DOMAIN td THEN td[k] ELSE sd[k]])]
                 ELSE d2

\* one iteration of the loop over the columns of the included document
MergeColumn(self_doc, toml_doc, column) ==
    LET columns == OrEmpty(self_doc.columns)
    IN  IF Contains(columns, column)
        THEN [self_doc EXCEPT !.columns = Some(columns)]
        ELSE LET d1 == [self_doc EXCEPT !.columns = Some(Append(columns, column))]
                 e  == Get(OrEmptyMap(toml_doc.emoji), column)
                 d2 == IF IsSome(e)
                       THEN [d1 EXCEPT !.emoji =
                                Some(Insert(OrEmptyMap(d1.emoji), column, Unwrap(e)))]
                       ELSE d1
                 v  == Get(OrEmptyMap(toml_doc.defaults), column)
             IN  IF IsSome(v)
                 THEN [d2 EXCEPT !.defaults =
                          Some(Insert(OrEmptyMap(d2.defaults), column, Unwrap(v)))]
                 ELSE d2

RECURSIVE MergeColumns(_, _, _)
MergeColumns(self_doc, toml_doc, cols) ==
    IF cols = <<>> THEN self_doc
    ELSE MergeColumns(MergeColumn(self_doc, toml_doc, Head(cols)), toml_doc, Tail(cols))

\* MergeGroups with the groups of the include put first
MergeGroups_Prepend(self, toml) == Some(Groups(toml) \o Groups(self))

\* the groups the including document holds after the merge
MergeGroups(self, toml) == Some(Groups(self) \o Groups(toml))

\* the merge without the clusters of the include
MergeClusters_Drop(self, toml) == Some(OrEmpty(self.cluster))

\* the clusters the including document holds after the merge
MergeClusters(self, toml) == Some(OrEmpty(self.cluster) \o OrEmpty(toml.cluster))

\* the body of the loop over the include list, after the include was loaded
Merge(self, toml) ==
    LET self_doc == IF IsSome(self.doc) THEN Unwrap(self.doc) ELSE DefaultDoc
        toml_doc == IF IsSome(toml.doc) THEN Unwrap(toml.doc) ELSE DefaultDoc
    IN  SkillTree(MergeGroups(self, toml),
                  MergeClusters(self, toml),
                  Some(MergeColumns(self_doc, toml_doc, OrEmpty(toml_doc.columns))))

-----------------------------------------------------------------------------
(* SkillTree::validate *)

\* the loop of Group::validate over `requires`, from entry j on:
\* the first dependency that names no group
RECURSIVE CheckRequires(_, _, _, _)
CheckRequires(tree, g, reqs, j) ==
    IF j > Len(reqs) THEN None
    ELSE IF GroupNamed(tree, reqs[j]) = None
         THEN Some([group |-> g.name, dep |-> reqs[j]])
         ELSE CheckRequires(tree, g, reqs, j + 1)

\* Group::validate that looks at the first dependency only
GroupValidate_FirstOnly(g, tree) ==
    IF OrEmpty(g.requires) = <<>> THEN None
    ELSE CheckRequires(tree, g, <<OrEmpty(g.requires)[1]>>, 1)

\* ItemExt::validate that rejects an item without `label`
ItemValidate_RequireLabel(item) ==
    IF "label" \in DOMAIN item THEN None ELSE Some([group |-> "", dep |-> "label"])

\* ItemExt::validate: the checks are comments, it returns Ok(())
ItemValidate(item) == None

\* the loop of Group::validate over the items, from item k on: the first error
RECURSIVE CheckItems(_, _)
CheckItems(items, k) ==
    IF k > Len(items) THEN None
    ELSE IF IsSome(ItemValidate(items[k])) THEN ItemValidate(items[k])
    ELSE CheckItems(items, k + 1)

\* Group::validate
GroupValidate(g, tree) ==
    IF IsSome(CheckRequires(tree, g, OrEmpty(g.requires), 1))
    THEN CheckRequires(tree, g, OrEmpty(g.requires), 1)
    ELSE CheckItems(g.items, 1)

\* the loop of SkillTree::validate, from group i on
RECURSIVE ValidateFrom(_, _)
ValidateFrom(tree, i) ==
    IF i > Len(Groups(tree)) THEN None
    ELSE IF IsSome(GroupValidate(Groups(tree)[i], tree))
         THEN GroupValidate(Groups(tree)[i], tree)
         ELSE ValidateFrom(tree, i + 1)

\* SkillTree::validate that goes on after an error and returns the last one
RECURSIVE ValidateLast(_, _)
ValidateLast(tree, i) ==
    IF i < 1 THEN None
    ELSE IF IsSome(GroupValidate(Groups(tree)[i], tree))
         THEN GroupValidate(Groups(tree)[i], tree)
         ELSE ValidateLast(tree, i - 1)

ValidateTree_LastError(tree) == ValidateLast(tree, Len(Groups(tree)))

ValidateTree(tree) == ValidateFrom(tree, 1)

-----------------------------------------------------------------------------
(* The load: SkillTree::load, load_included_path, import *)

EmptyTree == SkillTree(None, None, None)

\* a call of load_included_path(path, loaded) that has not read its file yet
Call(path) == [path |-> path, pos |-> "read", tree |-> EmptyTree, include |-> <<>>, i |-> 1]

Top == stack[Len(stack)]
Pop(s) == SubSeq(s, 1, Len(s) - 1)
ReplaceTop(s, fr) == [s EXCEPT ![Len(s)] = fr]

\* the snapshot `include.clone()` that import iterates over
IncludeOf(tree) ==
    IF IsSome(tree.doc) THEN OrEmpty(Unwrap(tree.doc).include) ELSE <<>>

\* HashSet::insert that forgets the path
LoadedInsert_Forget(set, include_path) == set

\* HashSet::insert: the set afterwards
LoadedInsert(set, include_path) == set \cup {include_path}

\* the path import hands to load_included_path
TreePath(root_path, include_path) == Join(Parent(root_path), include_path)

\* with_context that puts the frame of `path` innermost
WithContext_Innermost(e, path) == [e EXCEPT !.frames = Append(@, path)]

\* with_context: the frame of `path` becomes the outermost one
WithContext(e, path) == [e EXCEPT !.frames = <<path>> \o @]

RECURSIVE SumLen(_, _)
SumLen(d, fs) ==
    IF fs = {} THEN 0
    ELSE LET f == CHOOSE x \in fs : TRUE
         IN  Len(IncludeOf(d[f])) + SumLen(d, fs \ {f})

\* the include entries of the documents read so far
Used == SumLen(disk, DOMAIN disk)

\* the recursion is at most one call per entry of `loaded`
DepthCap == entries + 2

\* the state before SkillTree::load is called, on a disk of at most n include entries
Start(n) ==
    /\ pc = "start"
    /\ world \in Worlds
    /\ entries = n
    /\ disk = EmptyMap
    /\ loaded = {}
    /\ stack = <<>>
    /\ result = None
    /\ err = None
    /\ vres = None
    /\ rootPath = <<>>
    /\ readLog = <<>>
    /\ failChain = <<>>
    /\ out = None

Init == Start(MaxIncludes)

InitTerm == Start(MaxCycle)

\* SkillTree::load up to its call of load_included_path
Load(path) ==
    /\ pc = "start"
    /\ pc' = "loading"
    /\ rootPath' = path
    /\ loaded' = LoadedInsert({}, path)
    /\ stack' = <<Call(path)>>
    /\ UNCHANGED <<disk, result, err, vres, readLog, failChain, world, entries, out>>

\* read_to_string and parse succeed
ReadParse ==
    /\ pc = "loading"
    /\ Top.pos = "read"
    /\ LET f == Resolve(Top.path)
       IN  /\ f # NoFile
           /\ \E tree \in IF f \in DOMAIN disk THEN {disk[f]}
                          ELSE {Parse(world, f, inc) : inc \in IncludeLists(entries - Used)} :
                /\ disk' = [x \in DOMAIN disk \cup {f} |-> IF x = f THEN tree ELSE disk[x]]
                /\ stack' = ReplaceTop(stack, [Top EXCEPT !.pos = "import", !.tree = tree,
                                                          !.include = IncludeOf(tree), !.i = 1])
           /\ readLog' = Append(readLog, f)
    /\ UNCHANGED <<pc, loaded, result, err, vres, rootPath, failChain, world, entries, out>>

\* read_to_string fails (no such file, unreadable) or parse fails (malformed)
ReadFail ==
    /\ pc = "loading"
    /\ Top.pos = "read"
    /\ LET f == Resolve(Top.path)
       IN  /\ f \notin DOMAIN disk
           /\ \E cause \in IF f = NoFile THEN {"LoadError"} ELSE {"LoadError", "ParseError"} :
                err' = Some([cause |-> cause, frames |-> <<>>])
    /\ pc' = "unwinding"
    /\ failChain' = [k \in 1..Len(stack) |-> stack[k].path]
    /\ UNCHANGED <<disk, loaded, stack, result, vres, rootPath, readLog, world, entries, out>>

\* import: the include entry is in `loaded` already: continue
ImportSkip ==
    /\ pc = "loading"
    /\ Top.pos = "import"
    /\ Top.i <= Len(Top.include)
    /\ Top.include[Top.i] \in loaded
    /\ loaded' = LoadedInsert(loaded, Top.include[Top.i])
    /\ stack' = ReplaceTop(stack, [Top EXCEPT !.i = @ + 1])
    /\ UNCHANGED <<pc, disk, result, err, vres, rootPath, readLog, failChain, world, entries, out>>

\* import: the include entry is new: insert it and load the document it names
ImportRecurse ==
    /\ pc = "loading"
    /\ Top.pos = "import"
    /\ Top.i <= Len(Top.include)
    /\ Top.include[Top.i] \notin loaded
    /\ Len(stack) < DepthCap
    /\ loaded' = LoadedInsert(loaded, Top.include[Top.i])
    /\ stack' = Append(stack, Call(TreePath(Top.path, Top.include[Top.i])))
    /\ UNCHANGED <<pc, disk, result, err, vres, rootPath, readLog, failChain, world, entries, out>>

\* an include returns Ok(tree): import merges it and goes on with the next entry
ReturnMerge ==
    /\ pc = "loading"
    /\ Top.pos = "import"
    /\ Top.i > Len(Top.include)
    /\ Len(stack) > 1
    /\ LET parent == stack[Len(stack) - 1]
       IN  stack' = ReplaceTop(Pop(stack),
                               [parent EXCEPT !.tree = Merge(parent.tree, Top.tree),
                                              !.i = @ + 1])
    /\ UNCHANGED <<pc, disk, loaded, result, err, vres, rootPath, readLog, failChain, world, entries, out>>

\* the outermost load_included_path returns Ok(tree)
ReturnRoot ==
    /\ pc = "loading"
    /\ Top.pos = "import"
    /\ Top.i > Len(Top.include)
    /\ Len(stack) = 1
    /\ result' = Some(Top.tree)
    /\ stack' = <<>>
    /\ pc' = "loaded"
    /\ UNCHANGED <<disk, loaded, err, vres, rootPath, readLog, failChain, world, entries, out>>

\* import that drops the error of an include and goes on with the next entry
Propagate_Swallow ==
    /\ pc = "unwinding"
    /\ stack # <<>>
    /\ IF Len(stack) = 1
       THEN /\ err' = Some(WithContext(Unwrap(err), Top.path))
            /\ stack' = <<>>
            /\ pc' = "failed"
       ELSE /\ err' = None
            /\ stack' = ReplaceTop(Pop(stack), [stack[Len(stack) - 1] EXCEPT !.i = @ + 1])
            /\ pc' = "loading"
    /\ UNCHANGED <<disk, loaded, result, vres, rootPath, readLog, failChain, world, entries, out>>

\* a load_included_path call returns Err: with_context, then `?` in import
Propagate ==
    /\ pc = "unwinding"
    /\ stack # <<>>
    /\ err' = Some(WithContext(Unwrap(err), Top.path))
    /\ stack' = Pop(stack)
    /\ pc' = IF Len(stack) = 1 THEN "failed" ELSE "unwinding"
    /\ UNCHANGED <<disk, loaded, result, vres, rootPath, readLog, failChain, world, entries, out>>

\* SkillTree::validate on the loaded document
Validate ==
    /\ pc = "loaded"
    /\ vres' = ValidateTree(Unwrap(result))
    /\ pc' = "validated"
    /\ UNCHANGED <<disk, loaded, stack, result, err, rootPath, readLog, failChain, world, entries, out>>

\* the items of the groups of a document
ItemsOf(tree) ==
    UNION {Range(Groups(tree)[i].items) : i \in 1..Len(Groups(tree))}

\* the arguments the accessors are called with
QueryItems == {Item1("href", "h"), Item2("label", "p", "z", ""), Item2("label", "p", "z", "own")}
QueryColumns == {"z", "w", "q"}
QueryInputs == {"1", "unknown"}
QueryNames == {"ga", "gd", "gs", "nope"}

\* an accessor call and what it returned
Called(op, item, column, input, ret) ==
    Some([op |-> op, item |-> item, column |-> column, input |-> input, ret |-> ret])

\* a consumer calls item.column_value(tree, c) on the validated document
ColumnValueCall(item, c) ==
    /\ pc = "validated"
    /\ out' = Called("column_value", item, c, "", ColumnValue(item, Unwrap(result), c))
    /\ pc' = "accessed"
    /\ UNCHANGED <<disk, loaded, stack, result, err, vres, rootPath, readLog, failChain,
                   world, entries>>

\* a consumer calls tree.emoji(column, input)
EmojiCall(column, input) ==
    /\ pc = "validated"
    /\ out' = Called("emoji", EmptyMap, column, input, Emoji(Unwrap(result), column, input))
    /\ pc' = "accessed"
    /\ UNCHANGED <<disk, loaded, stack, result, err, vres, rootPath, readLog, failChain,
                   world, entries>>

\* a consumer calls tree.group_named(name)
GroupNamedCall(name) ==
    /\ pc = "validated"
    /\ out' = Called("group_named", EmptyMap, "", name, GroupNamed(Unwrap(result), name))
    /\ pc' = "accessed"
    /\ UNCHANGED <<disk, loaded, stack, result, err, vres, rootPath, readLog, failChain,
                   world, entries>>

\* a consumer calls item.href() on an item of the document
HrefCall(item) ==
    /\ pc = "validated"
    /\ out' = Called("href", item, "", "", Href(item))
    /\ pc' = "accessed"
    /\ UNCHANGED <<disk, loaded, stack, result, err, vres, rootPath, readLog, failChain,
                   world, entries>>

\* a consumer calls item.label() on an item of the document
LabelCall(item) ==
    /\ pc = "validated"
    /\ out' = Called("label", item, "", "", Label(item))
    /\ pc' = IF Label(item).panic THEN "panicked" ELSE "accessed"
    /\ UNCHANGED <<disk, loaded, stack, result, err, vres, rootPath, readLog, failChain,
                   world, entries>>

Next ==
    \/ \E path \in RootPaths : Load(path)
    \/ ReadParse
    \/ ReadFail
    \/ ImportSkip
    \/ ImportRecurse
    \/ ReturnMerge
    \/ ReturnRoot
    \/ Propagate
    \/ Validate
    \/ \E item \in QueryItems, c \in QueryColumns : ColumnValueCall(item, c)
    \/ \E column \in QueryColumns, input \in QueryInputs : EmojiCall(column, input)
    \/ \E name \in QueryNames : GroupNamedCall(name)
    \/ pc = "validated" /\ \E item \in ItemsOf(Unwrap(result)) : HrefCall(item)
    \/ pc = "validated" /\ \E item \in ItemsOf(Unwrap(result)) : LabelCall(item)

Spec == Init /\ [][Next]_vars

\* the program runs on: a step that can be taken is taken
TermSpec == InitTerm /\ [][Next]_vars /\ WF_vars(Next)

-----------------------------------------------------------------------------
(* Vocabulary of the properties *)

Count(s, x) == Cardinality({i \in 1..Len(s) : s[i] = x})

IsPrefix(s, t) == Len(s) <= Len(t) /\ SubSeq(t, 1, Len(s)) = s

Returned == pc \in {"loaded", "validated", "accessed", "panicked"}

\* the document SkillTree::load returned
Merged == Unwrap(result)

\* the file the root path names
RootFile == Resolve(rootPath)

\* the files the include entries of document f resolve to, in include-list order
Targets(f) ==
    [k \in 1..Len(IncludeOf(disk[f])) |-> Resolve(TreePath(f, IncludeOf(disk[f])[k]))]

\* the groups / columns a document declares itself
OwnGroups(f) == Groups(disk[f])
OwnColumns(f) == Columns(disk[f])

\* the concatenation of the own groups of the files of log, in order
RECURSIVE FlatGroups(_)
FlatGroups(log) ==
    IF log = <<>> THEN <<>> ELSE OwnGroups(Head(log)) \o FlatGroups(Tail(log))

RECURSIVE FlatColumns(_)
FlatColumns(log) ==
    IF log = <<>> THEN <<>> ELSE OwnColumns(Head(log)) \o FlatColumns(Tail(log))

\* the elements of seen that are not in old, each at its first occurrence, in order
RECURSIVE FirstSeenFrom(_, _, _)
FirstSeenFrom(seen, old, k) ==
    IF k > Len(seen) THEN <<>>
    ELSE IF seen[k] \in Range(old) \/ \E j \in 1..(k - 1) : seen[j] = seen[k]
         THEN FirstSeenFrom(seen, old, k + 1)
         ELSE <<seen[k]>> \o FirstSeenFrom(seen, old, k + 1)

FirstSeen(seen, old) == FirstSeenFrom(seen, old, 1)

\* the default and the translation table a document holds for column c (None: none)
DefaultOf(tree, c) ==
    IF IsSome(tree.doc) THEN Get(OrEmptyMap(Unwrap(tree.doc).defaults), c) ELSE None

TableOf(tree, c) ==
    IF IsSome(tree.doc) THEN Get(OrEmptyMap(Unwrap(tree.doc).emoji), c) ELSE None

\* this step is the merge of a loaded include (the top call) into the call below it
MergeStep == pc = "loading" /\ pc' = "loading" /\ Len(stack') = Len(stack) - 1

Accumulator == stack[Len(stack) - 1].tree
AccumulatorAfter == stack'[Len(stack')].tree
Included == stack[Len(stack)].tree

-----------------------------------------------------------------------------
(* C1 *)

\* the include graph read from disk is the diamond A -> B, A -> C, B -> D, C -> D
IsDiamond(A, B, C, D) ==
    /\ A = RootFile
    /\ Cardinality({A, B, C, D}) = 4
    /\ Targets(A) = <<B, C>>
    /\ Targets(B) = <<D>>
    /\ Targets(C) = <<D>>
    /\ Targets(D) = <<>>

\* C1: in a diamond include graph, whatever text the two include entries of D
\* have, D is loaded once, and each group and each column of D is once in the
\* merged document.
C1_DiamondOnce ==
    Returned =>
        \A A \in DOMAIN disk, B \in DOMAIN disk, C \in DOMAIN disk, D \in DOMAIN disk :
            IsDiamond(A, B, C, D) =>
                /\ Count(readLog, D) = 1
                /\ \A g \in Range(OwnGroups(D)) : Count(Groups(Merged), g) = 1
                /\ \A c \in Range(OwnColumns(D)) : Count(Columns(Merged), c) = 1

-----------------------------------------------------------------------------
(* C2 *)

\* the files document f includes, among those read
IncludedBy(f) == Range(Targets(f)) \cap DOMAIN disk

\* the files reachable from the files of S through at most n include entries
RECURSIVE ReachIn(_, _)
ReachIn(S, n) ==
    IF n = 0 THEN S
    ELSE ReachIn(S \cup UNION {IncludedBy(f) : f \in S}, n - 1)

\* document f includes itself, directly or through a chain of documents
OnCycle(f) == f \in ReachIn(IncludedBy(f), Cardinality(Files))

\* C2: SkillTree::load eventually returns (a document or an error), also when
\* the include graph has cycles.
C2_LoadReturns == <>(pc = "loaded" \/ pc = "failed")

\* load returned a document although a document read includes itself
C2_Witness == pc = "loaded" /\ \E f \in DOMAIN disk : OnCycle(f)

-----------------------------------------------------------------------------
(* C3 *)

\* C3: the groups of the root document are exactly once in the merged group
\* list and the root file is read once, also when an include names the root again.
C3_RootOnce ==
    Returned =>
        /\ Count(readLog, RootFile) = 1
        /\ \A g \in Range(OwnGroups(RootFile)) : Count(Groups(Merged), g) = 1

-----------------------------------------------------------------------------
(* C4 *)

\* C4: merging an include keeps the columns of the accumulator as they are and
\* appends the columns of the include that are new, each once, in the order of
\* the include; the merged column list is the root's own list followed by the
\* columns of the includes in merge order, each at its first occurrence.
C4_ColumnOrder ==
    [][ /\ MergeStep =>
            /\ IsPrefix(Columns(Accumulator), Columns(AccumulatorAfter))
            /\ Columns(AccumulatorAfter) =
                   Columns(Accumulator) \o FirstSeen(Columns(Included), Columns(Accumulator))
        /\ pc' = "loaded" =>
            Columns(Unwrap(result')) =
                OwnColumns(RootFile) \o FirstSeen(FlatColumns(Tail(readLog)), OwnColumns(RootFile))
      ]_vars

\* root [x, y] and one include [y, z] give [x, y, z]
C4_Witness ==
    /\ pc = "loaded"
    /\ readLog = << <<"a">>, <<"b">> >>
    /\ OwnColumns(<<"a">>) = <<"x", "y">>
    /\ OwnColumns(<<"b">>) = <<"y", "z">>
    /\ Columns(Merged) = <<"x", "y", "z">>

-----------------------------------------------------------------------------
(* C5 *)

\* C5: once a column is in the column list of a document being loaded, no merge
\* of an include changes the default or the translation table that document
\* holds for it, up to the document load returns.
C5_FirstDefaultWins ==
    [][ /\ \A k \in 1..Len(stack') :
             (k <= Len(stack) /\ stack[k].pos = "import") =>
                 \A c \in Range(Columns(stack[k].tree)) :
                     /\ DefaultOf(stack'[k].tree, c) = DefaultOf(stack[k].tree, c)
                     /\ TableOf(stack'[k].tree, c) = TableOf(stack[k].tree, c)
        /\ pc' = "loaded" =>
             \A c \in Range(Columns(stack[1].tree)) :
                 /\ DefaultOf(Unwrap(result'), c) = DefaultOf(stack[1].tree, c)
                 /\ TableOf(Unwrap(result'), c) = TableOf(stack[1].tree, c)
      ]_vars

\* z came with default "?" from the first include; the second include declares
\* z with default "!" and another table
C5_Witness ==
    /\ pc = "loaded"
    /\ readLog = << <<"a">>, <<"b">>, <<"sub", "b">> >>
    /\ DefaultOf(disk[<<"b">>], "z") = Some("?")
    /\ DefaultOf(disk[<<"sub", "b">>], "z") = Some("!")
    /\ TableOf(disk[<<"sub", "b">>], "z") # TableOf(disk[<<"b">>], "z")
    /\ DefaultOf(Merged, "z") = Some("?")
    /\ TableOf(Merged, "z") = TableOf(disk[<<"b">>], "z")

-----------------------------------------------------------------------------
(* C6 *)

\* C6: merging an include appends its complete group list (its nested includes
\* merged) to the groups of the including document; the merged group list is
\* the own groups of the documents read, in the order they were read
\* (depth-first pre-order), the root's own groups first.
C6_FlattenedGroups ==
    [][ /\ MergeStep =>
            Groups(AccumulatorAfter) = Groups(Accumulator) \o Groups(Included)
        /\ pc' = "loaded" =>
            /\ Groups(Unwrap(result')) = FlatGroups(readLog)
            /\ IsPrefix(OwnGroups(RootFile), Groups(Unwrap(result')))
      ]_vars

\* a nested include: the root includes a document that includes another one
C6_Witness ==
    /\ pc = "loaded"
    /\ Len(readLog) >= 3
    /\ IncludedBy(readLog[2]) # {}
    /\ Cardinality(Range(readLog)) = Len(readLog)
    /\ Len(Groups(Merged)) >= 4

-----------------------------------------------------------------------------
(* C7 *)

GroupNames(tree) == {Groups(tree)[i].name : i \in 1..Len(Groups(tree))}

\* dependency j of group i of the document names no group
Missing(tree, i, j) == OrEmpty(Groups(tree)[i].requires)[j] \notin GroupNames(tree)

\* the (group, dependency) positions of the document
Edges(tree) ==
    UNION {{<<i, j>> : j \in 1..Len(OrEmpty(Groups(tree)[i].requires))} :
              i \in 1..Len(Groups(tree))}

\* C7: validate succeeds exactly when every dependency of every group of the
\* merged document is the name of a group of the merged document; its error
\* names a group and a dependency of that group that names no group.
C7_DependencyValidation ==
    pc = "validated" =>
        /\ vres = None <=> \A e \in Edges(Merged) : ~Missing(Merged, e[1], e[2])
        /\ vres # None =>
              \E e \in Edges(Merged) :
                  /\ Missing(Merged, e[1], e[2])
                  /\ Unwrap(vres).group = Groups(Merged)[e[1]].name
                  /\ Unwrap(vres).dep = OrEmpty(Groups(Merged)[e[1]].requires)[e[2]]

\* validate succeeds on a document whose root group depends on groups that two
\* different includes declare
C7_Witness ==
    /\ pc = "validated"
    /\ vres = None
    /\ Len(readLog) >= 3
    /\ \E e \in Edges(Merged) : e[1] = 1
    /\ \E e \in Edges(Merged) : e[1] > 1

-----------------------------------------------------------------------------
(* C8 *)

\* position e comes before position d in the walk of validate
Before(e, d) == e[1] < d[1] \/ (e[1] = d[1] /\ e[2] < d[2])

\* C8: the error of validate is the one of the first missing dependency, in
\* group-list order and, within a group, in declared order.
C8_FirstMissing ==
    (pc = "validated" /\ vres # None) =>
        \E e \in Edges(Merged) :
            /\ Missing(Merged, e[1], e[2])
            /\ \A d \in Edges(Merged) : Missing(Merged, d[1], d[2]) => ~Before(d, e)
            /\ Unwrap(vres) = [group |-> Groups(Merged)[e[1]].name,
                               dep |-> OrEmpty(Groups(Merged)[e[1]].requires)[e[2]]]

\* several dependencies are missing, in two groups with different names, and
\* within one group after a dependency that resolves
C8_Witness ==
    /\ pc = "validated"
    /\ vres # None
    /\ \E e \in Edges(Merged), d \in Edges(Merged) :
          /\ Missing(Merged, e[1], e[2])
          /\ Missing(Merged, d[1], d[2])
          /\ Groups(Merged)[e[1]].name # Groups(Merged)[d[1]].name
          /\ OrEmpty(Groups(Merged)[e[1]].requires)[e[2]] #
                 OrEmpty(Groups(Merged)[d[1]].requires)[d[2]]
    /\ \E e \in Edges(Merged) : e[2] > 1 /\ Missing(Merged, e[1], e[2])
                                /\ ~Missing(Merged, e[1], 1)

-----------------------------------------------------------------------------
(* C9 *)

\* C9: once a document load reads is unreadable or malformed, load returns an
\* error and no document; it returns a document only when no read failed.
C9_AllOrNothing ==
    /\ failChain # <<>> => (pc \in {"unwinding", "failed"} /\ result = None /\ err # None)
    /\ pc = "failed" => (failChain # <<>> /\ stack = <<>>)
    /\ Returned => (result # None /\ err = None /\ failChain = <<>>)

\* the load failed in the second include of the root, after the first include
\* had been merged
C9_Witness ==
    /\ pc = "failed"
    /\ result = None
    /\ Len(failChain) = 2
    /\ Len(readLog) >= 2
    /\ failChain[2] # TreePath(rootPath, IncludeOf(disk[RootFile])[1])

-----------------------------------------------------------------------------
(* C10 *)

\* C10: the error load returns carries one context frame per document on the
\* include chain from the root to the document that failed, outermost first.
C10_ContextChain ==
    /\ pc = "failed" =>
          /\ Unwrap(err).frames = failChain
          /\ failChain[1] = rootPath
          /\ \A k \in 2..Len(failChain) :
                 /\ Resolve(failChain[k - 1]) \in DOMAIN disk
                 /\ \E inc \in Range(IncludeOf(disk[Resolve(failChain[k - 1])])) :
                        failChain[k] = TreePath(failChain[k - 1], inc)
    /\ pc = "unwinding" =>
          Unwrap(err).frames = SubSeq(failChain, Len(stack) + 1, Len(failChain))

\* the failing document is two includes deep and a sibling was merged before
C10_Witness ==
    /\ pc = "failed"
    /\ Len(failChain) = 3
    /\ Len(Unwrap(err).frames) = 3
    /\ \E f \in Range(readLog) : \A k \in 1..Len(failChain) : Resolve(failChain[k]) # f

-----------------------------------------------------------------------------
(* C11 *)

\* the accessor call made, when it is a call of op
Made(op) == out # None /\ Unwrap(out).op = op

\* C11: column_value returns the item's own value for the column when the item
\* has the key (the empty string included), otherwise the merged default of
\* the column when there is one, otherwise the empty string; it never fails.
C11_FallbackChain ==
    Made("column_value") =>
        LET o == Unwrap(out)
        IN  /\ pc = "accessed"
            /\ o.ret = IF o.column \in DOMAIN o.item THEN o.item[o.column]
                       ELSE IF DefaultOf(Merged, o.column) # None
                            THEN Unwrap(DefaultOf(Merged, o.column))
                            ELSE ""

\* the item holds the empty string for z and the merged document a default for z
C11_Witness ==
    /\ Made("column_value")
    /\ Unwrap(out).column = "z"
    /\ Unwrap(out).item = Item2("label", "p", "z", "")
    /\ DefaultOf(Merged, "z") = Some("?")
    /\ Unwrap(out).ret = ""

-----------------------------------------------------------------------------
(* C12 *)

\* C12: emoji returns the entry of the merged translation table of the column
\* when table and entry exist, and the input unchanged otherwise; it never fails.
C12_EmojiFallback ==
    Made("emoji") =>
        LET o == Unwrap(out)
            t == TableOf(Merged, o.column)
        IN  /\ pc = "accessed"
            /\ o.ret = IF t # None /\ o.input \in DOMAIN Unwrap(t)
                       THEN Unwrap(t)[o.input]
                       ELSE o.input

\* the merged document has a table for z, the table has no entry for the input
C12_Witness ==
    /\ Made("emoji")
    /\ Unwrap(out).column = "z"
    /\ Unwrap(out).input = "unknown"
    /\ TableOf(Merged, "z") # None
    /\ Unwrap(out).ret = "unknown"

-----------------------------------------------------------------------------
(* C13 *)

\* the positions of the groups of the document that have this name
Named(tree, name) == {i \in 1..Len(Groups(tree)) : Groups(tree)[i].name = name}

HasDuplicateNames(tree) == \E n \in GroupNames(tree) : Cardinality(Named(tree, n)) > 1

AllResolve(tree) == \A e \in Edges(tree) : ~Missing(tree, e[1], e[2])

\* C13: groups that share a name all stay in the merged group list, validate
\* does not reject the document for them, and group_named returns the first
\* group of that name in merged order, none exactly when there is none.
C13_FirstGroupWins ==
    /\ (Returned /\ HasDuplicateNames(Merged)) =>
          /\ Groups(Merged) = FlatGroups(readLog)
          /\ (pc # "loaded" /\ AllResolve(Merged)) => vres = None
    /\ Made("group_named") =>
          LET o == Unwrap(out)
              at == Named(Merged, o.input)
          IN  /\ pc = "accessed"
              /\ at = {} => o.ret = None
              /\ at # {} =>
                    \E i \in at : /\ \A j \in at : i <= j
                                  /\ o.ret = Some(Groups(Merged)[i])

\* two different groups are named gd; group_named returns the one of the
\* earlier include
C13_Witness ==
    /\ Made("group_named")
    /\ Unwrap(out).input = "gd"
    /\ \E i \in Named(Merged, "gd"), j \in Named(Merged, "gd") :
          /\ i < j
          /\ Groups(Merged)[i] # Groups(Merged)[j]
          /\ Unwrap(out).ret = Some(Groups(Merged)[i])

-----------------------------------------------------------------------------
(* C14 *)

\* C14: a merge that introduces a column copies the default and the
\* translation table the include holds for it (its nested includes merged)
\* into the accumulator; column_value and emoji on the merged document then
\* go through the merged default and table.
C14_CarryOver ==
    [][ /\ MergeStep =>
            \A c \in Range(Columns(Included)) \ Range(Columns(Accumulator)) :
                /\ DefaultOf(Included, c) # None =>
                       DefaultOf(AccumulatorAfter, c) = DefaultOf(Included, c)
                /\ TableOf(Included, c) # None =>
                       TableOf(AccumulatorAfter, c) = TableOf(Included, c)
        /\ (out' # None /\ Unwrap(out').op = "column_value") =>
            LET o == Unwrap(out')
            IN  (o.column \notin DOMAIN o.item /\ DefaultOf(Merged, o.column) # None) =>
                    o.ret = Unwrap(DefaultOf(Merged, o.column))
        /\ (out' # None /\ Unwrap(out').op = "emoji") =>
            LET o == Unwrap(out')
                t == TableOf(Merged, o.column)
            IN  (t # None /\ o.input \in DOMAIN Unwrap(t)) => o.ret = Unwrap(t)[o.input]
      ]_vars

\* w comes from sub/d, through b that does not declare it, into the root
C14_Witness ==
    /\ Made("column_value")
    /\ readLog = << <<"a">>, <<"b">>, <<"sub", "d">> >>
    /\ Len(IncludeOf(disk[<<"a">>])) = 1
    /\ ~Contains(OwnColumns(<<"b">>), "w")
    /\ DefaultOf(disk[<<"sub", "d">>], "w") = Some("dw")
    /\ Unwrap(out).column = "w"
    /\ "w" \notin DOMAIN Unwrap(out).item
    /\ Unwrap(out).ret = "dw"

-----------------------------------------------------------------------------
(* C15 *)

Clusters(tree) == OrEmpty(tree.cluster)

RECURSIVE FlatClusters(_)
FlatClusters(log) ==
    IF log = <<>> THEN <<>> ELSE Clusters(disk[Head(log)]) \o FlatClusters(Tail(log))

\* C15: a merge appends the clusters of the include, in the step that appends
\* its groups; the merged cluster list is the own clusters of the documents
\* read, in the order they were read.
C15_ClusterMerge ==
    [][ /\ MergeStep =>
            /\ Clusters(AccumulatorAfter) = Clusters(Accumulator) \o Clusters(Included)
            /\ Groups(AccumulatorAfter) = Groups(Accumulator) \o Groups(Included)
        /\ pc' = "loaded" => Clusters(Unwrap(result')) = FlatClusters(readLog)
      ]_vars

\* the root, an include and a nested include each declare a cluster
C15_Witness ==
    /\ pc = "loaded"
    /\ Len(readLog) = 3
    /\ IncludedBy(readLog[2]) # {}
    /\ \A k \in 1..3 : Clusters(disk[readLog[k]]) # <<>>
    /\ Len(Clusters(Merged)) = 3
    /\ Len(Groups(Merged)) >= 3

-----------------------------------------------------------------------------
(* C16 *)

\* C16: validate succeeds on a document whose dependencies all resolve, also
\* when an item has no label; label() fails on an item without label, and only
\* there; href() returns the href of the item or nothing, and does not fail.
C16_LazyLabel ==
    /\ (Returned /\ pc # "loaded" /\ AllResolve(Merged)) => vres = None
    /\ Made("label") =>
          LET o == Unwrap(out)
          IN  /\ o.ret.panic <=> "label" \notin DOMAIN o.item
              /\ pc = "panicked" <=> o.ret.panic
              /\ ~o.ret.panic => o.ret.value = o.item["label"]
    /\ Made("href") =>
          LET o == Unwrap(out)
          IN  /\ pc = "accessed"
              /\ o.ret = IF "href" \in DOMAIN o.item THEN Some(o.item["href"]) ELSE None

\* validate succeeded on a document with an item without label, and label()
\* on that item failed
C16_Witness ==
    /\ pc = "panicked"
    /\ vres = None
    /\ Made("label")
    /\ Unwrap(out).item \in ItemsOf(Merged)
    /\ "label" \notin DOMAIN Unwrap(out).item

-----------------------------------------------------------------------------
(* C17 *)

\* C17: when load succeeds, every file an include entry of a document read
\* resolves to has been read.
C17_IncludeComplete ==
    Returned =>
        \A f \in DOMAIN disk : \A k \in 1..Len(Targets(f)) :
            Targets(f)[k] \in Files => Targets(f)[k] \in Range(readLog)

-----------------------------------------------------------------------------
(* C18 *)

\* the calls that are active before and after the step
Persistent == {k \in 1..Len(stack') : k <= Len(stack) /\ stack[k].pos = "import"}

DefaultKeys(tree) == IF IsSome(tree.doc) THEN DOMAIN OrEmptyMap(Unwrap(tree.doc).defaults) ELSE {}
TableKeys(tree) == IF IsSome(tree.doc) THEN DOMAIN OrEmptyMap(Unwrap(tree.doc).emoji) ELSE {}

\* C18 as claimed: no merge changes the value of a key that the defaults map
\* or the emoji map of the accumulator holds already.
C18_NeverOverwritten ==
    [][ \A k \in Persistent :
            /\ \A c \in DefaultKeys(stack[k].tree) :
                   DefaultOf(stack'[k].tree, c) = DefaultOf(stack[k].tree, c)
            /\ \A c \in TableKeys(stack[k].tree) :
                   TableOf(stack'[k].tree, c) = TableOf(stack[k].tree, c)
      ]_vars

\* this step merges an include that introduces column c into call k
Introduces(k, c) ==
    /\ MergeStep
    /\ k = Len(stack')
    /\ ~Contains(Columns(stack[k].tree), c)
    /\ Contains(Columns(Included), c)

\* C18 amended: a merge changes the value of a key of the defaults map or the
\* emoji map of the accumulator only when the key is a column the accumulator
\* does not list and the include introduces; the new value is the include's.
C18_OverwrittenOnlyWhenIntroduced ==
    [][ \A k \in Persistent :
            /\ \A c \in DefaultKeys(stack[k].tree) :
                   \/ DefaultOf(stack'[k].tree, c) = DefaultOf(stack[k].tree, c)
                   \/ /\ Introduces(k, c)
                      /\ DefaultOf(Included, c) # None
                      /\ DefaultOf(stack'[k].tree, c) = DefaultOf(Included, c)
            /\ \A c \in TableKeys(stack[k].tree) :
                   \/ TableOf(stack'[k].tree, c) = TableOf(stack[k].tree, c)
                   \/ /\ Introduces(k, c)
                      /\ TableOf(Included, c) # None
                      /\ TableOf(stack'[k].tree, c) = TableOf(Included, c)
      ]_vars

\* the root declares a default and a table for z without listing z; the
\* include lists z, and its default replaced the one of the root
C18_Witness ==
    /\ pc = "loaded"
    /\ rootPath = <<"a">>
    /\ ~Contains(OwnColumns(<<"a">>), "z")
    /\ DefaultOf(disk[<<"a">>], "z") = Some("az")
    /\ readLog = << <<"a">>, <<"sub", "d">> >>
    /\ DefaultOf(disk[<<"sub", "d">>], "z") = Some("?")
    /\ DefaultOf(Merged, "z") = Some("?")

-----------------------------------------------------------------------------
(* C19 *)

NoRepeat(s) == \A i \in 1..Len(s), j \in 1..Len(s) : s[i] = s[j] => i = j

\* C19: a document whose own column list repeats no name holds a column list
\* that repeats no name after every merge and when load returns it.
C19_NoDuplicateColumns ==
    /\ \A k \in 1..Len(stack) :
           (stack[k].pos = "import" /\ NoRepeat(OwnColumns(Resolve(stack[k].path)))) =>
               NoRepeat(Columns(stack[k].tree))
    /\ (Returned /\ NoRepeat(OwnColumns(RootFile))) => NoRepeat(Columns(Merged))

\* an include declares [z, z], a later include declares [z, y]
C19_Witness ==
    /\ pc = "loaded"
    /\ readLog = << <<"a">>, <<"b">>, <<"sub", "d">> >>
    /\ OwnColumns(<<"a">>) = <<>>
    /\ OwnColumns(<<"b">>) = <<"z", "z">>
    /\ OwnColumns(<<"sub", "d">>) = <<"z", "y">>
    /\ Columns(Merged) = <<"z", "y">>

====
